---- MODULE Spec2Model ----
(***************************************************************************)
(* Crop disease detection service: model loading and readiness             *)
(* (app/core/model.py), the prediction pipeline (app/core/predictor.py),   *)
(* application start-up (app/__init__.py) and the request handlers         *)
(* (app/api/routes.py, app/api/schemas.py, app/utils/image_utils.py).      *)
(*                                                                         *)
(* Confidences are fixed-point: the integer c stands for c / 100000, so    *)
(* 0.5 is 50000 and 0.49999 is 49999.  Class indices are 0-based as in the *)
(* code; TLA+ sequences are 1-based, so class i is predictions[i + 1].     *)
(***************************************************************************)
EXTENDS Integers, Sequences, FiniteSets, TLC

VARIABLES
    keras_file,          \* environment: the .h5 artifact ("ok", "missing", "corrupt")
    tflite_file,         \* environment: the .tflite artifact ("ok", "missing", "corrupt", "unset")
    labels_file,         \* environment: class_labels.json [state, content]
    keras_model,         \* ModelManager.keras_model     (FALSE is None)
    tflite_interpreter,  \* ModelManager.tflite_interpreter (FALSE is None)
    class_labels,        \* ModelManager.class_labels
    num_classes,         \* ModelManager.num_classes
    pc,                  \* position of create_app / of the process
    routes_registered,   \* app.register_blueprint(routes.api) has run
    op,                  \* the operation last invoked
    args,                \* its inputs
    ret,                 \* its outcome (return value, exception or HTTP response)
    loop,                \* DiseasePredictor.predict_batch in progress
    conc                 \* the TFLite interpreter's tensors and the calls of concurrent workers

env  == <<keras_file, tflite_file, labels_file>>
mgr  == <<keras_model, tflite_interpreter, class_labels, num_classes>>
app  == <<pc, routes_registered>>
io   == <<op, args, ret>>
vars == <<keras_file, tflite_file, labels_file, keras_model, tflite_interpreter,
          class_labels, num_classes, pc, routes_registered, op, args, ret, loop,
          conc>>

----------------------------------------------------------------------------
(* Bounds of the model and the input sets                                  *)

MaxClasses == 3
MaxBatch == 3
MAX_BATCH_SIZE == 3
NumWorkers == 2
max_size_bytes == 6
MaxLabelLen == 5

LabelPool ==
    <<"Tomato_Early_blight", "Pepper__bell___healthy", "Potato___Late_blight",
      "Corn_healthy", "Tomato_healthy", "Apple___Black_rot">>

LabelTables ==
    {SubSeq(LabelPool, 1, n) : n \in 0..(IF MaxClasses < Len(LabelPool) THEN MaxClasses ELSE Len(LabelPool))}

Probs == {30000, 50000, 85000}

Vectors == UNION {[1..n -> Probs] : n \in 1..MaxClasses}

Confidences == {0, 30000, 49999, 50000, 69999, 70000, 84999, 85000, 100000}

\* top_k values: below 1, within the class count and beyond it
KRange == (0 - (MaxClasses + 1))..(MaxClasses + 1)

\* a preprocessed image array, identified with the probability vector the
\* loaded model computes from it
Tensors == {[probs |-> v] : v \in Vectors}

BatchTensors == {[probs |-> <<85000>>], [probs |-> <<50000, 50000>>]}

ModelFailures == {"none", "ValueError", "InternalError"}

----------------------------------------------------------------------------
(* Outcomes of a call                                                      *)

NoValue == [none |-> TRUE]

Return(v) == [ok |-> TRUE, exc |-> "none", error |-> "", value |-> v]

Raise(type, msg) == [ok |-> FALSE, exc |-> type, error |-> msg, value |-> NoValue]

Pending == [ok |-> FALSE, exc |-> "pending", error |-> "", value |-> NoValue]

\* predict_batch's frame: idx is enumerate's position, exc an exception leaving
\* the loop, outcomes the history of predict's outcomes (TRUE: it returned)
Idle == [active |-> FALSE, caller |-> "none", arrays |-> <<>>, use_tflite |-> FALSE,
         idx |-> 0, results |-> <<>>, exc |-> "none", outcomes |-> <<>>]

Workers == 1..NumWorkers

\* one worker's call of predict: its position, its arguments and the
\* probability vector (or the exception) it got
WorkerIdle == [pc |-> "idle", image_array |-> [probs |-> <<>>], use_tflite |-> FALSE,
               predictions |-> Pending]

\* the interpreter after allocate_tensors: an input slot and an output slot
ConcIdle == [input |-> [probs |-> <<>>], output |-> <<>>,
             workers |-> [w \in Workers |-> WorkerIdle]]

----------------------------------------------------------------------------
(* Python and numpy helpers                                                *)

Min(a, b) == IF a < b THEN a ELSE b

Max(a, b) == IF a > b THEN a ELSE b

\* s[::-1]
Reverse(s) == [i \in 1..Len(s) |-> s[Len(s) + 1 - i]]

\* s[start:] with Python's treatment of a negative or too large start
PySliceFrom(s, start) ==
    LET n  == Len(s)
        lo == IF start < 0 THEN Max(n + start, 0) ELSE Min(start, n)
    IN  SubSeq(s, lo + 1, n)

\* np.argsort(predictions): every index order that sorts the values
\* ascending; the default sort kind is not stable, so the order of equal
\* values is not determined
ArgsortResults(predictions) ==
    LET n == Len(predictions)
    IN  {p \in [1..n -> 0..(n - 1)] :
            /\ \A i, j \in 1..n : i # j => p[i] # p[j]
            /\ \A i, j \in 1..n : i < j => predictions[p[i] + 1] <= predictions[p[j] + 1]}

----------------------------------------------------------------------------
(* Python str operations; a str is a sequence of one-character strings     *)

ascii_uppercase == <<"A", "B", "C", "D", "E", "F", "G", "H", "I", "J", "K", "L", "M", "N", "O", "P", "Q", "R", "S", "T", "U", "V", "W", "X", "Y", "Z">>
ascii_lowercase == <<"a", "b", "c", "d", "e", "f", "g", "h", "i", "j", "k", "l", "m", "n", "o", "p", "q", "r", "s", "t", "u", "v", "w", "x", "y", "z">>

lower_char(c) ==
    IF \E i \in 1..26 : ascii_uppercase[i] = c
    THEN ascii_lowercase[CHOOSE i \in 1..26 : ascii_uppercase[i] = c]
    ELSE c

upper_char(c) ==
    IF \E i \in 1..26 : ascii_lowercase[i] = c
    THEN ascii_uppercase[CHOOSE i \in 1..26 : ascii_lowercase[i] = c]
    ELSE c

\* str.lower()
lower(s) == [i \in 1..Len(s) |-> lower_char(s[i])]

\* str.capitalize(): first character upper case, the rest lower case
capitalize(s) ==
    IF s = <<>> THEN <<>> ELSE <<upper_char(s[1])>> \o lower(Tail(s))

\* sub in s
Contains(s, sub) ==
    \E i \in 1..(Len(s) - Len(sub) + 1) : SubSeq(s, i, i + Len(sub) - 1) = sub

\* s.replace("__", "_"): one pass, left to right, over non-overlapping matches
RECURSIVE replace(_)
replace(s) ==
    IF Len(s) < 2 THEN s
    ELSE IF s[1] = "_" /\ s[2] = "_" THEN <<"_">> \o replace(SubSeq(s, 3, Len(s)))
    ELSE <<s[1]>> \o replace(Tail(s))

RECURSIVE lstrip(_)
lstrip(s) == IF s # <<>> /\ s[1] = "_" THEN lstrip(Tail(s)) ELSE s

RECURSIVE rstrip(_)
rstrip(s) == IF s # <<>> /\ s[Len(s)] = "_" THEN rstrip(SubSeq(s, 1, Len(s) - 1)) ELSE s

\* s.strip("_")
strip(s) == rstrip(lstrip(s))

\* s.split("_"): always at least one part, "".split("_") is [""]
RECURSIVE split(_)
split(s) ==
    IF ~Contains(s, <<"_">>) THEN <<s>>
    ELSE LET i == CHOOSE j \in 1..Len(s) : s[j] = "_" /\ \A k \in 1..(j - 1) : s[k] # "_"
         IN  <<SubSeq(s, 1, i - 1)>> \o split(SubSeq(s, i + 1, Len(s)))

----------------------------------------------------------------------------
(* DiseaseDatabase and the enrichment of DiseasePredictor                  *)

None == NoValue

\* _load_disease_data: every entry has name, crop and type; the other fields
\* of an entry are static text and are left out
diseases ==
       (<<"t", "o", "m", "a", "t", "o", "_", "e", "a", "r", "l", "y", "_", "b", "l", "i", "g", "h", "t">> :> [name |-> <<"T", "o", "m", "a", "t", "o", " ", "E", "a", "r", "l", "y", " ", "B", "l", "i", "g", "h", "t">>,
        crop |-> <<"T", "o", "m", "a", "t", "o">>, type |-> "disease"])
    @@ (<<"t", "o", "m", "a", "t", "o", "_", "l", "a", "t", "e", "_", "b", "l", "i", "g", "h", "t">> :> [name |-> <<"T", "o", "m", "a", "t", "o", " ", "L", "a", "t", "e", " ", "B", "l", "i", "g", "h", "t">>,
        crop |-> <<"T", "o", "m", "a", "t", "o">>, type |-> "disease"])
    @@ (<<"t", "o", "m", "a", "t", "o", "_", "b", "a", "c", "t", "e", "r", "i", "a", "l", "_", "s", "p", "o", "t">> :> [name |-> <<"T", "o", "m", "a", "t", "o", " ", "B", "a", "c", "t", "e", "r", "i", "a", "l", " ", "S", "p", "o", "t">>,
        crop |-> <<"T", "o", "m", "a", "t", "o">>, type |-> "disease"])
    @@ (<<"t", "o", "m", "a", "t", "o", "_", "l", "e", "a", "f", "_", "m", "o", "l", "d">> :> [name |-> <<"T", "o", "m", "a", "t", "o", " ", "L", "e", "a", "f", " ", "M", "o", "l", "d">>,
        crop |-> <<"T", "o", "m", "a", "t", "o">>, type |-> "disease"])
    @@ (<<"t", "o", "m", "a", "t", "o", "_", "s", "e", "p", "t", "o", "r", "i", "a", "_", "l", "e", "a", "f", "_", "s", "p", "o", "t">> :> [name |-> <<"T", "o", "m", "a", "t", "o", " ", "S", "e", "p", "t", "o", "r", "i", "a", " ", "L", "e", "a", "f", " ", "S", "p", "o", "t">>,
        crop |-> <<"T", "o", "m", "a", "t", "o">>, type |-> "disease"])
    @@ (<<"t", "o", "m", "a", "t", "o", "_", "t", "a", "r", "g", "e", "t", "_", "s", "p", "o", "t">> :> [name |-> <<"T", "o", "m", "a", "t", "o", " ", "T", "a", "r", "g", "e", "t", " ", "S", "p", "o", "t">>,
        crop |-> <<"T", "o", "m", "a", "t", "o">>, type |-> "disease"])
    @@ (<<"t", "o", "m", "a", "t", "o", "_", "m", "o", "s", "a", "i", "c", "_", "v", "i", "r", "u", "s">> :> [name |-> <<"T", "o", "m", "a", "t", "o", " ", "M", "o", "s", "a", "i", "c", " ", "V", "i", "r", "u", "s">>,
        crop |-> <<"T", "o", "m", "a", "t", "o">>, type |-> "disease"])
    @@ (<<"t", "o", "m", "a", "t", "o", "_", "y", "e", "l", "l", "o", "w", "_", "l", "e", "a", "f", "_", "c", "u", "r", "l", "_", "v", "i", "r", "u", "s">> :> [name |-> <<"T", "o", "m", "a", "t", "o", " ", "Y", "e", "l", "l", "o", "w", " ", "L", "e", "a", "f", " ", "C", "u", "r", "l", " ", "V", "i", "r", "u", "s">>,
        crop |-> <<"T", "o", "m", "a", "t", "o">>, type |-> "disease"])
    @@ (<<"t", "o", "m", "a", "t", "o", "_", "s", "p", "i", "d", "e", "r", "_", "m", "i", "t", "e", "s">> :> [name |-> <<"T", "w", "o", "-", "S", "p", "o", "t", "t", "e", "d", " ", "S", "p", "i", "d", "e", "r", " ", "M", "i", "t", "e">>,
        crop |-> <<"T", "o", "m", "a", "t", "o">>, type |-> "pest"])
    @@ (<<"t", "o", "m", "a", "t", "o", "_", "h", "e", "a", "l", "t", "h", "y">> :> [name |-> <<"H", "e", "a", "l", "t", "h", "y", " ", "T", "o", "m", "a", "t", "o">>,
        crop |-> <<"T", "o", "m", "a", "t", "o">>, type |-> "healthy"])
    @@ (<<"p", "o", "t", "a", "t", "o", "_", "e", "a", "r", "l", "y", "_", "b", "l", "i", "g", "h", "t">> :> [name |-> <<"P", "o", "t", "a", "t", "o", " ", "E", "a", "r", "l", "y", " ", "B", "l", "i", "g", "h", "t">>,
        crop |-> <<"P", "o", "t", "a", "t", "o">>, type |-> "disease"])
    @@ (<<"p", "o", "t", "a", "t", "o", "_", "l", "a", "t", "e", "_", "b", "l", "i", "g", "h", "t">> :> [name |-> <<"P", "o", "t", "a", "t", "o", " ", "L", "a", "t", "e", " ", "B", "l", "i", "g", "h", "t">>,
        crop |-> <<"P", "o", "t", "a", "t", "o">>, type |-> "disease"])
    @@ (<<"p", "o", "t", "a", "t", "o", "_", "h", "e", "a", "l", "t", "h", "y">> :> [name |-> <<"H", "e", "a", "l", "t", "h", "y", " ", "P", "o", "t", "a", "t", "o">>,
        crop |-> <<"P", "o", "t", "a", "t", "o">>, type |-> "healthy"])
    @@ (<<"p", "e", "p", "p", "e", "r", "_", "b", "e", "l", "l", "_", "b", "a", "c", "t", "e", "r", "i", "a", "l", "_", "s", "p", "o", "t">> :> [name |-> <<"P", "e", "p", "p", "e", "r", " ", "B", "e", "l", "l", " ", "B", "a", "c", "t", "e", "r", "i", "a", "l", " ", "S", "p", "o", "t">>,
        crop |-> <<"B", "e", "l", "l", " ", "P", "e", "p", "p", "e", "r">>, type |-> "disease"])
    @@ (<<"p", "e", "p", "p", "e", "r", "_", "b", "e", "l", "l", "_", "h", "e", "a", "l", "t", "h", "y">> :> [name |-> <<"H", "e", "a", "l", "t", "h", "y", " ", "B", "e", "l", "l", " ", "P", "e", "p", "p", "e", "r">>,
        crop |-> <<"B", "e", "l", "l", " ", "P", "e", "p", "p", "e", "r">>, type |-> "healthy"])

get_disease_info(disease_key) ==
    IF disease_key \in DOMAIN diseases THEN diseases[disease_key] ELSE None

RECURSIVE collapse(_)
\* while "__" in normalized: normalized = normalized.replace("__", "_")
collapse(normalized) ==
    IF Contains(normalized, <<"_", "_">>) THEN collapse(replace(normalized)) ELSE normalized

\* if "__" in normalized: normalized = normalized.replace("__", "_")
collapse_once(normalized) ==
    IF Contains(normalized, <<"_", "_">>) THEN replace(normalized) ELSE normalized

_normalize_disease_key_one_pass(class_name) == strip(collapse_once(lower(class_name)))

_normalize_disease_key_no_lower(class_name) == strip(collapse(class_name))

_normalize_disease_key(class_name) == strip(collapse(lower(class_name)))

Unknown == <<"U", "n", "k", "n", "o", "w", "n">>

_extract_crop_name_whole(class_name) == capitalize(class_name)

_extract_crop_name(class_name) ==
    LET parts == split(class_name)
    IN  IF Len(parts) > 0 THEN capitalize(parts[1]) ELSE Unknown

healthy == <<"h", "e", "a", "l", "t", "h", "y">>

FallbackRecord(class_name, type) ==
    [name |-> class_name,
     crop |-> _extract_crop_name(class_name),
     type |-> type,
     message |-> "Detailed information not available in database",
     recommendation |-> "Consult with agricultural expert for detailed diagnosis"]

_get_disease_information_raw_key(class_name) ==
    LET disease_info == get_disease_info(class_name)
    IN  IF disease_info # None THEN Return(disease_info)
        ELSE Return(FallbackRecord(class_name,
                 IF Contains(lower(class_name), healthy) THEN "healthy" ELSE "disease"))

_get_disease_information_case_sensitive(class_name) ==
    LET disease_info == get_disease_info(_normalize_disease_key(class_name))
    IN  IF disease_info # None THEN Return(disease_info)
        ELSE Return(FallbackRecord(class_name,
                 IF Contains(class_name, healthy) THEN "healthy" ELSE "disease"))

_get_disease_information(class_name) ==
    LET disease_key == _normalize_disease_key(class_name)
        disease_info == get_disease_info(disease_key)
    IN  IF disease_info # None THEN Return(disease_info)
        ELSE Return(FallbackRecord(class_name,
                 IF Contains(lower(class_name), healthy) THEN "healthy" ELSE "disease"))

\* the class labels of LabelPool and the placeholders of get_class_label as
\* Python str values
LabelPoolCharacters ==
    <<<<"T", "o", "m", "a", "t", "o", "_", "E", "a", "r", "l", "y", "_", "b", "l", "i", "g", "h", "t">>,
      <<"P", "e", "p", "p", "e", "r", "_", "_", "b", "e", "l", "l", "_", "_", "_", "h", "e", "a", "l", "t", "h", "y">>,
      <<"P", "o", "t", "a", "t", "o", "_", "_", "_", "L", "a", "t", "e", "_", "b", "l", "i", "g", "h", "t">>,
      <<"C", "o", "r", "n", "_", "h", "e", "a", "l", "t", "h", "y">>,
      <<"T", "o", "m", "a", "t", "o", "_", "h", "e", "a", "l", "t", "h", "y">>,
      <<"A", "p", "p", "l", "e", "_", "_", "_", "B", "l", "a", "c", "k", "_", "r", "o", "t">>>>

unknown_class_ == <<"u", "n", "k", "n", "o", "w", "n", "_", "c", "l", "a", "s", "s", "_">>

RECURSIVE repr(_)
\* the decimal digits of a natural number, as f"{index}" writes them
repr(n) ==
    IF n < 10 THEN <<ToString(n)>> ELSE repr(n \div 10) \o <<ToString(n % 10)>>

Characters(label) ==
    IF \E i \in 1..Len(LabelPool) : LabelPool[i] = label
    THEN LabelPoolCharacters[CHOOSE i \in 1..Len(LabelPool) : LabelPool[i] = label]
    ELSE LET n == CHOOSE n \in 0..(MaxClasses + 2) : label = "unknown_class_" \o ToString(n)
         IN  unknown_class_ \o repr(n)

\* the enrichment record of every label predict can meet
disease_information ==
    [label \in {LabelPool[i] : i \in 1..Len(LabelPool)}
               \cup {"unknown_class_" \o ToString(n) : n \in 0..(MaxClasses + 2)} |->
        _get_disease_information(Characters(label))]

----------------------------------------------------------------------------
(* ModelManager                                                            *)

is_ready_and == (keras_model /\ tflite_interpreter) /\ Len(class_labels) > 0

is_ready == (keras_model \/ tflite_interpreter) /\ Len(class_labels) > 0

\* the shape and parameter count of a loaded Keras model are fixed by its
\* file and left out
get_model_info ==
    [num_classes |-> num_classes,
     class_labels |-> class_labels,
     keras_available |-> keras_model,
     tflite_available |-> tflite_interpreter]

get_class_label_negative_wraps(index) ==
    IF index < Len(class_labels) /\ 0 - index <= Len(class_labels)
    THEN class_labels[IF index >= 0 THEN index + 1 ELSE Len(class_labels) + index + 1]
    ELSE "unknown_class_" \o ToString(index)

get_class_label(index) ==
    IF 0 <= index /\ index < Len(class_labels)
    THEN class_labels[index + 1]
    ELSE "unknown_class_" \o ToString(index)

\* raises: the exception the model evaluation itself ends with ("none": it
\* returns); Keras reports an input of the wrong shape as a ValueError
predict_keras(image_array, raises) ==
    IF ~keras_model THEN Raise("RuntimeError", "Keras model not loaded")
    ELSE IF raises # "none" THEN Raise(raises, "model evaluation failed")
    ELSE Return(image_array.probs)

predict_tflite(image_array, raises) ==
    IF ~tflite_interpreter THEN Raise("RuntimeError", "TFLite model not loaded")
    ELSE IF raises # "none" THEN Raise(raises, "model evaluation failed")
    ELSE Return(image_array.probs)

----------------------------------------------------------------------------
(* DiseasePredictor                                                        *)

_assess_severity_le(confidence) ==
    IF confidence <= 50000 THEN "uncertain"
    ELSE IF confidence <= 70000 THEN "mild"
    ELSE IF confidence <= 85000 THEN "moderate"
    ELSE "severe"

_assess_severity(confidence) ==
    IF confidence < 50000 THEN "uncertain"
    ELSE IF confidence < 70000 THEN "mild"
    ELSE IF confidence < 85000 THEN "moderate"
    ELSE "severe"

_get_top_predictions_asc(predictions, top_k, order) ==
    LET k == Min(top_k, Len(predictions))
        top_indices == PySliceFrom(order, 0 - k)
    IN  [i \in 1..Len(top_indices) |->
            [class       |-> get_class_label(top_indices[i]),
             class_index |-> top_indices[i],
             confidence  |-> predictions[top_indices[i] + 1]]]

_get_top_predictions_head(predictions, top_k, order) ==
    LET k == Min(top_k, Len(predictions))
        top_indices == Reverse(SubSeq(order, 1, k))
    IN  [i \in 1..Len(top_indices) |->
            [class       |-> get_class_label(top_indices[i]),
             class_index |-> top_indices[i],
             confidence  |-> predictions[top_indices[i] + 1]]]

\* order is the value np.argsort(predictions) returned
_get_top_predictions_by_position(predictions, top_k, order) ==
    LET k == Min(top_k, Len(predictions))
        top_indices == Reverse(PySliceFrom(order, 0 - k))
    IN  [i \in 1..Len(top_indices) |->
            [class       |-> get_class_label(i - 1),
             class_index |-> i - 1,
             confidence  |-> predictions[top_indices[i] + 1]]]

_get_top_predictions(predictions, top_k, order) ==
    LET k == Min(top_k, Len(predictions))
        top_indices == Reverse(PySliceFrom(order, 0 - k))
    IN  [i \in 1..Len(top_indices) |->
            [class       |-> get_class_label(top_indices[i]),
             class_index |-> top_indices[i],
             confidence  |-> predictions[top_indices[i] + 1]]]

\* backend is not a key of the result: it records which branch produced the vector
predict_alternatives_with_primary(image_array, use_tflite, top_k, raises, order) ==
    LET viaTflite   == use_tflite /\ tflite_interpreter
        predictions ==
            IF viaTflite THEN predict_tflite(image_array, raises)
            ELSE IF keras_model THEN predict_keras(image_array, raises)
            ELSE Raise("RuntimeError", "No model available for prediction")
    IN  IF ~predictions.ok THEN predictions
        ELSE LET top_predictions == _get_top_predictions(predictions.value, top_k, order)
             IN  IF Len(top_predictions) = 0
                 THEN Raise("IndexError", "list index out of range")
                 ELSE Return([success |-> TRUE,
                              model_used |-> IF use_tflite THEN "tflite" ELSE "keras",
                              backend |-> IF viaTflite THEN "tflite" ELSE "keras",
                              primary_prediction |->
                                  [disease    |-> top_predictions[1].class,
                                   confidence |-> top_predictions[1].confidence,
                                   severity   |-> _assess_severity(top_predictions[1].confidence)],
                              alternative_predictions |-> top_predictions,
                              disease_information |->
                                  disease_information[top_predictions[1].class].value])

predict_swallows_errors(image_array, use_tflite, top_k, raises, order) ==
    LET viaTflite   == use_tflite /\ tflite_interpreter
        predictions ==
            IF viaTflite THEN predict_tflite(image_array, raises)
            ELSE IF keras_model THEN predict_keras(image_array, raises)
            ELSE Raise("RuntimeError", "No model available for prediction")
    IN  IF ~predictions.ok THEN Return([success |-> FALSE, error |-> predictions.error])
        ELSE LET top_predictions == _get_top_predictions(predictions.value, top_k, order)
             IN  IF Len(top_predictions) = 0
                 THEN Raise("IndexError", "list index out of range")
                 ELSE Return([success |-> TRUE,
                              model_used |-> IF use_tflite THEN "tflite" ELSE "keras",
                              backend |-> IF viaTflite THEN "tflite" ELSE "keras",
                              primary_prediction |->
                                  [disease    |-> top_predictions[1].class,
                                   confidence |-> top_predictions[1].confidence,
                                   severity   |-> _assess_severity(top_predictions[1].confidence)],
                              alternative_predictions |-> Tail(top_predictions),
                              disease_information |->
                                  disease_information[top_predictions[1].class].value])

predict(image_array, use_tflite, top_k, raises, order) ==
    LET viaTflite   == use_tflite /\ tflite_interpreter
        predictions ==
            IF viaTflite THEN predict_tflite(image_array, raises)
            ELSE IF keras_model THEN predict_keras(image_array, raises)
            ELSE Raise("RuntimeError", "No model available for prediction")
    IN  IF ~predictions.ok THEN predictions
        ELSE LET top_predictions == _get_top_predictions(predictions.value, top_k, order)
             IN  IF Len(top_predictions) = 0
                 THEN Raise("IndexError", "list index out of range")
                 ELSE Return([success |-> TRUE,
                              model_used |-> IF use_tflite THEN "tflite" ELSE "keras",
                              backend |-> IF viaTflite THEN "tflite" ELSE "keras",
                              primary_prediction |->
                                  [disease    |-> top_predictions[1].class,
                                   confidence |-> top_predictions[1].confidence,
                                   severity   |-> _assess_severity(top_predictions[1].confidence)],
                              alternative_predictions |-> Tail(top_predictions),
                              disease_information |->
                                  disease_information[top_predictions[1].class].value])

\* one iteration of predict_batch's loop, r being predict's outcome for item l.idx
predict_batch_item_propagate(l, r) ==
    IF r.ok
    THEN [l EXCEPT !.results = Append(@, [image_index |-> l.idx] @@ r.value),
                   !.idx = @ + 1]
    ELSE [l EXCEPT !.exc = r.exc]

predict_batch_item_skip(l, r) ==
    IF r.ok
    THEN [l EXCEPT !.results = Append(@, [image_index |-> l.idx] @@ r.value),
                   !.idx = @ + 1]
    ELSE [l EXCEPT !.idx = @ + 1]

predict_batch_item(l, r) ==
    IF r.ok
    THEN [l EXCEPT !.results = Append(@, [image_index |-> l.idx] @@ r.value),
                   !.idx = @ + 1]
    ELSE [l EXCEPT !.results = Append(@, [success |-> FALSE, image_index |-> l.idx,
                                          error |-> r.error]),
                   !.idx = @ + 1]

----------------------------------------------------------------------------
(* Loading (ModelManager.__init__)                                         *)

KerasFiles == {"ok", "missing", "corrupt"}

TfliteFiles == {"ok", "missing", "corrupt", "unset"}

LabelFiles ==
    {[state |-> "missing", content |-> <<>>], [state |-> "invalid", content |-> <<>>]}
    \cup {[state |-> "ok", content |-> t] : t \in LabelTables}

\* _load_models: the Keras model is kept when the file exists and loads
LoadedKeras(file) == file = "ok"

\* _load_models: the interpreter is kept when a path is set, exists and loads
LoadedTflite(file) == file = "ok"

\* _load_class_labels raises when the file is missing or is not JSON
LabelsLoad(file) ==
    IF file.state = "ok" THEN Return(file.content)
    ELSE IF file.state = "missing" THEN Raise("FileNotFoundError", "Class labels file not found")
    ELSE Raise("JSONDecodeError", "invalid class labels")

----------------------------------------------------------------------------
(* Direct calls on a constructed ModelManager and DiseasePredictor         *)

UnitInit ==
    /\ keras_file \in {"ok", "missing"}
    /\ tflite_file \in {"ok", "missing"}
    /\ labels_file \in {f \in LabelFiles : f.state = "ok"}
    /\ keras_model = LoadedKeras(keras_file)
    /\ tflite_interpreter = LoadedTflite(tflite_file)
    /\ class_labels = labels_file.content
    /\ num_classes = Len(labels_file.content)
    /\ pc = "unit"
    /\ routes_registered = FALSE
    /\ op = "none"
    /\ args = NoValue
    /\ ret = Pending
    /\ loop = Idle
    /\ conc = ConcIdle

CallRank ==
    /\ pc = "unit" /\ op = "none"
    /\ \E predictions \in Vectors, top_k \in KRange :
         \E order \in ArgsortResults(predictions) :
            /\ op' = "rank"
            /\ args' = [predictions |-> predictions, top_k |-> top_k]
            /\ ret' = Return(_get_top_predictions(predictions, top_k, order))
    /\ UNCHANGED <<env, conc, mgr, app, loop>>

CallGetClassLabel ==
    /\ pc = "unit" /\ op = "none"
    /\ \E index \in (0 - 2)..(MaxClasses + 1) :
            /\ op' = "get_class_label"
            /\ args' = [index |-> index]
            /\ ret' = Return(get_class_label(index))
    /\ UNCHANGED <<env, conc, mgr, app, loop>>

CallAssess ==
    /\ pc = "unit" /\ op = "none"
    /\ \E confidence \in Confidences :
            /\ op' = "assess"
            /\ args' = [confidence |-> confidence]
            /\ ret' = Return(_assess_severity(confidence))
    /\ UNCHANGED <<env, conc, mgr, app, loop>>

CallPredict ==
    /\ pc = "unit" /\ op = "none"
    /\ \E image_array \in Tensors, use_tflite \in BOOLEAN, top_k \in KRange,
          raises \in ModelFailures :
         \E order \in ArgsortResults(image_array.probs) :
            /\ op' = "predict"
            /\ args' = [image_array |-> image_array, use_tflite |-> use_tflite,
                        top_k |-> top_k, raises |-> raises]
            /\ ret' = predict(image_array, use_tflite, top_k, raises, order)
    /\ UNCHANGED <<env, conc, mgr, app, loop>>

BatchInputs == UNION {[1..n -> BatchTensors] : n \in 0..MaxBatch}

CallPredictBatch ==
    /\ pc = "unit" /\ op = "none"
    /\ \E image_arrays \in BatchInputs, use_tflite \in BOOLEAN :
            /\ op' = "predict_batch"
            /\ args' = [image_arrays |-> image_arrays, use_tflite |-> use_tflite]
            /\ loop' = [Idle EXCEPT !.active = TRUE, !.caller = "unit",
                                    !.arrays = image_arrays, !.use_tflite = use_tflite]
    /\ ret' = Pending
    /\ UNCHANGED <<env, conc, mgr, app>>

\* predict_batch, one item, that also takes num_classes from the vector
BatchStep_sets_num_classes ==
    /\ loop.active /\ loop.exc = "none" /\ loop.idx < Len(loop.arrays)
    /\ \E raises \in ModelFailures :
         \E order \in ArgsortResults(loop.arrays[loop.idx + 1].probs) :
            LET r == predict(loop.arrays[loop.idx + 1], loop.use_tflite, 1, raises, order)
            IN  loop' = [predict_batch_item(loop, r) EXCEPT !.outcomes = Append(@, r.ok)]
    /\ num_classes' = Len(loop.arrays[loop.idx + 1].probs)
    /\ UNCHANGED <<env, conc, keras_model, tflite_interpreter, class_labels, app, io>>

\* predict_batch, one item, called with predict's default top_k
BatchStep_default_top_k ==
    /\ loop.active /\ loop.exc = "none" /\ loop.idx < Len(loop.arrays)
    /\ \E raises \in ModelFailures :
         \E order \in ArgsortResults(loop.arrays[loop.idx + 1].probs) :
            LET r == predict(loop.arrays[loop.idx + 1], loop.use_tflite, 3, raises, order)
            IN  loop' = [predict_batch_item(loop, r) EXCEPT !.outcomes = Append(@, r.ok)]
    /\ UNCHANGED <<env, conc, mgr, app, io>>

\* predict_batch, one item: predict(image_array, use_tflite, top_k=1) in try/except
BatchStep ==
    /\ loop.active /\ loop.exc = "none" /\ loop.idx < Len(loop.arrays)
    /\ \E raises \in ModelFailures :
         \E order \in ArgsortResults(loop.arrays[loop.idx + 1].probs) :
            LET r == predict(loop.arrays[loop.idx + 1], loop.use_tflite, 1, raises, order)
            IN  loop' = [predict_batch_item(loop, r) EXCEPT !.outcomes = Append(@, r.ok)]
    /\ UNCHANGED <<env, conc, mgr, app, io>>

\* predict_batch returns to a direct caller
BatchReturn ==
    /\ loop.active /\ loop.caller = "unit"
    /\ loop.exc # "none" \/ loop.idx = Len(loop.arrays)
    /\ ret' = IF loop.exc = "none" THEN Return(loop.results)
              ELSE Raise(loop.exc, "predict_batch raised")
    /\ loop' = [loop EXCEPT !.active = FALSE]
    /\ UNCHANGED <<env, conc, mgr, app, op, args>>

UnitNext ==
    \/ CallRank
    \/ CallGetClassLabel
    \/ CallAssess
    \/ CallPredict
    \/ CallPredictBatch
    \/ BatchStep
    \/ BatchReturn

SpecUnit == UnitInit /\ [][UnitNext]_vars

----------------------------------------------------------------------------
(* Application start-up (create_app)                                       *)

Init ==
    /\ keras_file \in KerasFiles
    /\ tflite_file \in TfliteFiles
    /\ labels_file \in LabelFiles
    /\ keras_model = FALSE
    /\ tflite_interpreter = FALSE
    /\ class_labels = <<>>
    /\ num_classes = 0
    /\ pc = "boot"
    /\ routes_registered = FALSE
    /\ op = "create_app"
    /\ args = NoValue
    /\ ret = Pending
    /\ loop = Idle
    /\ conc = ConcIdle

\* ModelManager.__init__: _load_models
LoadModels ==
    /\ pc = "boot"
    /\ keras_model' = LoadedKeras(keras_file)
    /\ tflite_interpreter' = LoadedTflite(tflite_file)
    /\ pc' = "models_loaded"
    /\ UNCHANGED <<env, conc, class_labels, num_classes, routes_registered, io, loop>>

\* ModelManager.__init__: _load_class_labels; its exception leaves create_app
LoadClassLabels ==
    /\ pc = "models_loaded"
    /\ LET r == LabelsLoad(labels_file)
       IN  IF r.ok
           THEN /\ class_labels' = r.value
                /\ num_classes' = Len(r.value)
                /\ pc' = "manager_built"
                /\ ret' = ret
           ELSE /\ pc' = "failed"
                /\ ret' = r
                /\ UNCHANGED <<class_labels, num_classes>>
    /\ UNCHANGED <<env, conc, keras_model, tflite_interpreter, routes_registered, op, args, loop>>

StartupCheck_models_only == keras_model \/ tflite_interpreter

\* create_app: the test guarding "raise RuntimeError('Models not loaded correctly')"
StartupCheck == is_ready

\* create_app from the readiness test to its return: init_routes and
\* app.register_blueprint run only when the test passes
FinishStartup ==
    /\ pc = "manager_built"
    /\ IF StartupCheck
       THEN /\ routes_registered' = TRUE
            /\ pc' = "serving"
            /\ op' = "none"
            /\ ret' = Pending
       ELSE /\ pc' = "failed"
            /\ ret' = Raise("RuntimeError", "Models not loaded correctly")
            /\ UNCHANGED <<routes_registered, op>>
    /\ UNCHANGED <<env, conc, mgr, args, loop>>

----------------------------------------------------------------------------
(* Request validation and image preprocessing                              *)

\* an image payload as the caller hands it over: either the bytes of a file
\* or their base64 text (length characters, pads of them "=" padding); kind
\* and probs say what the decoded bytes hold: "valid" is a readable picture,
\* "corrupt" does not open, "truncated" opens and verifies but fails when its
\* pixels are read, "empty" is the empty string
Image(kind, probs, encoding, length, pads) ==
    [kind |-> kind, probs |-> probs, encoding |-> encoding, length |-> length, pads |-> pads]

ValidImages == {Image("valid", t.probs, "base64", 4, 0) : t \in BatchTensors}

BadImage(kind) == Image(kind, <<>>, "base64", IF kind = "empty" THEN 0 ELSE 4, 0)

\* a readable picture whose bytes are more than max_size_bytes
OversizedImage == Image("valid", <<85000>>, "base64", 4 * ((max_size_bytes \div 3) + 1), 0)

SingleImages ==
    ValidImages \cup {OversizedImage} \cup {BadImage(k) : k \in {"corrupt", "truncated", "empty"}}

BatchImages == ValidImages \cup {BadImage("corrupt"), BadImage("empty")}

\* len(image_data) after base64.b64decode for text, len(image_data) for bytes
b64decode_len(image_data) ==
    IF image_data.encoding = "base64"
    THEN 3 * (image_data.length \div 4) - image_data.pads
    ELSE image_data.length

validate_image(image_data) ==
    IF b64decode_len(image_data) > max_size_bytes THEN FALSE
    ELSE image_data.kind \in {"valid", "truncated"}

preprocess_image_no_size_check(image_data) ==
    IF image_data.kind = "valid"
    THEN Return([probs |-> image_data.probs])
    ELSE Raise("ValueError", "Failed to process image")

preprocess_image(image_data) ==
    IF b64decode_len(image_data) > max_size_bytes
    THEN Raise("ValueError", "Failed to process image")
    ELSE IF image_data.kind = "valid"
    THEN Return([probs |-> image_data.probs])
    ELSE Raise("ValueError", "Failed to process image")

\* request bodies of /predict: body is "none" (JSON null), "no_image", "ok"
\* or "malformed" (not JSON: request.get_json() raises BadRequest)
\* the JSON value of top_k: top_k is int(value) and top_k_type the kind of
\* value: "int" k, "bool" (true is 1, false is 0), "numeric_str" (the text
\* of k), "float_whole" (k.0), "float_half" (k.5) or "text" (int() raises)
TopKValues ==
    {[top_k |-> k, top_k_type |-> t] :
        k \in {0, 1, 2, 11}, t \in {"int", "numeric_str", "float_whole", "float_half"}}
    \cup {[top_k |-> k, top_k_type |-> "bool"] : k \in {0, 1}}
    \cup {[top_k |-> 0, top_k_type |-> "text"]}

PredictRequests ==
    {[body |-> b, image |-> BadImage("empty"), use_tflite |-> FALSE,
      has_top_k |-> FALSE, top_k |-> 3, top_k_type |-> "int"] :
        b \in {"none", "no_image", "malformed"}}
    \cup {[body |-> "ok", image |-> i, use_tflite |-> u, has_top_k |-> FALSE, top_k |-> 3,
           top_k_type |-> "int"] :
            i \in SingleImages, u \in BOOLEAN}
    \cup {[body |-> "ok", image |-> i, use_tflite |-> u, has_top_k |-> TRUE,
           top_k |-> v.top_k, top_k_type |-> v.top_k_type] :
            i \in SingleImages, u \in BOOLEAN, v \in TopKValues}

validate_prediction_request(data) ==
    IF data.body = "none" THEN "No data provided"
    ELSE IF data.body = "no_image" THEN "Missing 'image' field"
    ELSE IF data.image.kind = "empty" THEN "Image data is empty"
    ELSE IF data.has_top_k /\ data.top_k_type = "text" THEN "top_k must be an integer"
    ELSE IF data.has_top_k /\ (data.top_k < 1 \/ data.top_k > 10)
         THEN "top_k must be between 1 and 10"
    ELSE "valid"

\* request bodies of /predict/batch: body is "none", "no_images", "not_list" or "ok"
BatchRequests ==
    {[body |-> b, images |-> <<>>, use_tflite |-> FALSE] :
        b \in {"none", "no_images", "not_list", "malformed"}}
    \cup {[body |-> "ok", images |-> l, use_tflite |-> u] :
            l \in UNION {[1..n -> BatchImages] : n \in 0..(MAX_BATCH_SIZE + 1)},
            u \in BOOLEAN}

validate_batch_request_no_maximum(data, max_batch_size) ==
    IF data.body = "none" THEN "No data provided"
    ELSE IF data.body = "no_images" THEN "Missing 'images' field"
    ELSE IF data.body = "not_list" THEN "'images' must be a list"
    ELSE IF Len(data.images) = 0 THEN "'images' list is empty"
    ELSE IF \E i \in 1..Len(data.images) : data.images[i].kind = "empty"
         THEN "Image at index is empty"
    ELSE "valid"

validate_batch_request(data, max_batch_size) ==
    IF data.body = "none" THEN "No data provided"
    ELSE IF data.body = "no_images" THEN "Missing 'images' field"
    ELSE IF data.body = "not_list" THEN "'images' must be a list"
    ELSE IF Len(data.images) = 0 THEN "'images' list is empty"
    ELSE IF Len(data.images) > max_batch_size THEN "Batch size exceeds maximum"
    ELSE IF \E i \in 1..Len(data.images) : data.images[i].kind = "empty"
         THEN "Image at index is empty"
    ELSE "valid"

----------------------------------------------------------------------------
(* Request handlers (routes)                                               *)

Http(status, body) == Return([status |-> status, body |-> body])

ErrorBody(msg, type) == [success |-> FALSE, error |-> msg, error_type |-> type]

\* routes.predict_batch, the preprocessing loop: the arrays of the images
\* that preprocess, in order; an image that fails is logged and left out
RECURSIVE PreprocessAll(_)
PreprocessAll(images) ==
    IF Len(images) = 0 THEN <<>>
    ELSE LET r == preprocess_image(Head(images))
         IN  IF r.ok THEN <<r.value>> \o PreprocessAll(Tail(images))
             ELSE PreprocessAll(Tail(images))

\* routes.predict, the whole handler
\* min(top_k, len(predictions)) and the slice [-top_k:] of rank for the value
\* of top_k as the request gave it: min of a str and an int raises TypeError,
\* and so does a slice bound that is a float (min returned the float)
rank_raises_TypeError(data, n) ==
    /\ data.has_top_k
    /\ \/ data.top_k_type = "numeric_str"
       \/ data.top_k_type = "float_whole" /\ data.top_k <= n
       \/ data.top_k_type = "float_half" /\ data.top_k < n

predict_route(data, raises, order) ==
    LET verdict == validate_prediction_request(data)
    IN  IF data.body = "malformed"
        THEN Http(500, ErrorBody("Internal server error during prediction", "server_error"))
        ELSE IF verdict # "valid" THEN Http(400, ErrorBody(verdict, ""))
        ELSE IF ~validate_image(data.image)
             THEN Http(400, ErrorBody("Invalid image format or size", ""))
        ELSE LET image_array == preprocess_image(data.image)
             IN  IF ~image_array.ok
                 THEN Http(400, ErrorBody(image_array.error, "validation_error"))
                 ELSE LET top_k  == IF data.has_top_k THEN data.top_k ELSE 3
                          called == predict(image_array.value, data.use_tflite, top_k,
                                            raises, order)
                          result == IF called.ok /\ rank_raises_TypeError(data,
                                                        Len(image_array.value.probs))
                                    THEN Raise("TypeError", "top_k is not an integer")
                                    ELSE called
                      IN  IF result.ok THEN Http(200, result.value)
                          ELSE IF result.exc = "ValueError"
                               THEN Http(400, ErrorBody(result.error, "validation_error"))
                          ELSE Http(500, ErrorBody("Internal server error during prediction",
                                                   "server_error"))

Serving == pc = "serving" /\ routes_registered /\ op = "none"

RoutePredict ==
    /\ Serving
    /\ \E data \in PredictRequests, raises \in ModelFailures :
         \E order \in ArgsortResults(data.image.probs) :
            /\ op' = "route_predict"
            /\ args' = [body |-> data.body, image |-> data.image,
                        use_tflite |-> data.use_tflite, has_top_k |-> data.has_top_k,
                        top_k |-> data.top_k, top_k_type |-> data.top_k_type,
                        raises |-> raises]
            /\ ret' = predict_route(data, raises, order)
    /\ UNCHANGED <<env, conc, mgr, app, loop>>

\* routes.predict_batch up to the call of predictor.predict_batch
RoutePredictBatch ==
    /\ Serving
    /\ \E data \in BatchRequests :
         LET verdict == validate_batch_request(data, MAX_BATCH_SIZE)
             image_arrays == PreprocessAll(data.images)
         IN  /\ op' = "route_batch"
             /\ args' = data
             /\ IF data.body = "malformed"
                THEN /\ ret' = Http(500, ErrorBody("Internal server error during batch prediction", ""))
                     /\ loop' = loop
                ELSE IF verdict # "valid"
                THEN /\ ret' = Http(400, ErrorBody(verdict, ""))
                     /\ loop' = loop
                ELSE IF Len(image_arrays) = 0
                THEN /\ ret' = Http(400, ErrorBody("No valid images in batch", ""))
                     /\ loop' = loop
                ELSE /\ ret' = Pending
                     /\ loop' = [Idle EXCEPT !.active = TRUE, !.caller = "route",
                                             !.arrays = image_arrays,
                                             !.use_tflite = data.use_tflite]
    /\ UNCHANGED <<env, conc, mgr, app>>

\* routes.predict_batch after predictor.predict_batch
RouteBatchFinish ==
    /\ loop.active /\ loop.caller = "route"
    /\ loop.exc # "none" \/ loop.idx = Len(loop.arrays)
    /\ ret' = IF loop.exc = "none"
              THEN Http(200, [success |-> TRUE, results |-> loop.results,
                              total_processed |-> Len(loop.results)])
              ELSE Http(500, ErrorBody("Internal server error during batch prediction", ""))
    /\ loop' = [loop EXCEPT !.active = FALSE]
    /\ UNCHANGED <<env, conc, mgr, app, op, args>>

\* the response is sent; the worker takes the next request
ResponseSent ==
    /\ pc = "serving" /\ op # "none" /\ ret.exc # "pending"
    /\ op' = "none"
    /\ args' = NoValue
    /\ ret' = Pending
    /\ loop' = Idle
    /\ UNCHANGED <<env, conc, mgr, app>>

Next ==
    \/ LoadModels
    \/ LoadClassLabels
    \/ FinishStartup
    \/ RoutePredict
    \/ RoutePredictBatch
    \/ BatchStep
    \/ RouteBatchFinish
    \/ ResponseSent

Spec == Init /\ [][Next]_vars

----------------------------------------------------------------------------
(* Direct calls of the pure helpers (SpecPure)                             *)

\* class labels of the data set and labels that exercise the corner cases
NamedLabels ==
    {<<"T", "o", "m", "a", "t", "o", "_", "E", "a", "r", "l", "y", "_", "b", "l", "i", "g", "h", "t">>,
     <<"P", "e", "p", "p", "e", "r", "_", "_", "b", "e", "l", "l", "_", "_", "_", "h", "e", "a", "l", "t", "h", "y">>,
     <<"P", "o", "t", "a", "t", "o", "_", "_", "_", "L", "a", "t", "e", "_", "b", "l", "i", "g", "h", "t">>,
     <<"C", "o", "r", "n", "_", "h", "e", "a", "l", "t", "h", "y">>,
     <<"T", "o", "m", "a", "t", "o", "_", "h", "e", "a", "l", "t", "h", "y">>,
     <<"A", "p", "p", "l", "e", "_", "_", "_", "B", "l", "a", "c", "k", "_", "r", "o", "t">>,
     <<"H", "E", "A", "L", "T", "H", "Y", "_", "l", "e", "a", "f">>,
     <<"G", "r", "a", "p", "e">>,
     <<"t", "o", "m", "a", "t", "o", "_", "Y", "E", "L", "L", "O", "W", "_", "l", "e", "a", "f">>,
     <<"_", "a", "_", "_", "_", "b", "_">>}

LabelAlphabet == {"a", "B", "_"}

ClassNames == NamedLabels \cup UNION {[1..n -> LabelAlphabet] : n \in 0..MaxLabelLen}

\* payloads for direct calls: bytes and base64 text around max_size_bytes
SizedImages ==
    {Image(k, IF k = "valid" THEN <<85000>> ELSE <<>>, "bytes", n, 0) :
        k \in {"valid", "corrupt", "truncated"}, n \in 1..(max_size_bytes + 2)}
    \cup {Image(k, IF k = "valid" THEN <<85000>> ELSE <<>>, "base64", 4 * q, p) :
            k \in {"valid", "corrupt", "truncated"},
            q \in 1..((max_size_bytes \div 3) + 2), p \in 0..2}

PureInit ==
    /\ keras_file = "missing"
    /\ tflite_file = "missing"
    /\ labels_file = [state |-> "ok", content |-> <<>>]
    /\ keras_model = FALSE
    /\ tflite_interpreter = FALSE
    /\ class_labels = <<>>
    /\ num_classes = 0
    /\ pc = "pure"
    /\ routes_registered = FALSE
    /\ op = "none"
    /\ args = NoValue
    /\ ret = Pending
    /\ loop = Idle
    /\ conc = ConcIdle

CallNormalize ==
    /\ pc = "pure" /\ op = "none"
    /\ \E class_name \in ClassNames :
         /\ op' = "_normalize_disease_key"
         /\ args' = [class_name |-> class_name]
         /\ ret' = Return(_normalize_disease_key(class_name))
    /\ UNCHANGED <<env, conc, mgr, app, loop>>

\* the key of the previous call is normalized once more
CallNormalizeAgain ==
    /\ pc = "pure" /\ op = "_normalize_disease_key"
    /\ op' = "_normalize_disease_key_again"
    /\ args' = [class_name |-> ret.value, first |-> args.class_name]
    /\ ret' = Return(_normalize_disease_key(ret.value))
    /\ UNCHANGED <<env, conc, mgr, app, loop>>

CallExtractCrop ==
    /\ pc = "pure" /\ op = "none"
    /\ \E class_name \in ClassNames :
         /\ op' = "_extract_crop_name"
         /\ args' = [class_name |-> class_name]
         /\ ret' = Return(_extract_crop_name(class_name))
    /\ UNCHANGED <<env, conc, mgr, app, loop>>

CallEnrich ==
    /\ pc = "pure" /\ op = "none"
    /\ \E class_name \in ClassNames :
         /\ op' = "_get_disease_information"
         /\ args' = [class_name |-> class_name]
         /\ ret' = _get_disease_information(class_name)
    /\ UNCHANGED <<env, conc, mgr, app, loop>>

CallValidateImage ==
    /\ pc = "pure" /\ op = "none"
    /\ \E image_data \in SizedImages :
         /\ op' = "validate_image"
         /\ args' = [image_data |-> image_data]
         /\ ret' = Return(validate_image(image_data))
    /\ UNCHANGED <<env, conc, mgr, app, loop>>

CallPreprocessImage ==
    /\ pc = "pure" /\ op = "none"
    /\ \E image_data \in SizedImages :
         /\ op' = "preprocess_image"
         /\ args' = [image_data |-> image_data]
         /\ ret' = preprocess_image(image_data)
    /\ UNCHANGED <<env, conc, mgr, app, loop>>

PureNext ==
    \/ CallNormalize
    \/ CallNormalizeAgain
    \/ CallExtractCrop
    \/ CallEnrich
    \/ CallValidateImage
    \/ CallPreprocessImage

SpecPure == PureInit /\ [][PureNext]_vars

----------------------------------------------------------------------------
(* Concurrent predict calls on one ModelManager (threaded workers)         *)

ConcInit ==
    /\ keras_file \in {"ok", "missing"}
    /\ tflite_file \in {"ok", "missing"}
    /\ labels_file = [state |-> "ok", content |-> SubSeq(LabelPool, 1, 1)]
    /\ keras_model = LoadedKeras(keras_file)
    /\ tflite_interpreter = LoadedTflite(tflite_file)
    /\ class_labels = labels_file.content
    /\ num_classes = Len(labels_file.content)
    /\ pc = "conc"
    /\ routes_registered = FALSE
    /\ op = "none"
    /\ args = NoValue
    /\ ret = Pending
    /\ loop = Idle
    /\ conc = ConcIdle

SetWorker(w, rec) == [conc EXCEPT !.workers[w] = rec]

\* DiseasePredictor.predict, the choice of the backend
ConcBegin(w) ==
    /\ conc.workers[w].pc = "idle"
    /\ \E image_array \in BatchTensors, use_tflite \in BOOLEAN :
         LET me == [WorkerIdle EXCEPT !.image_array = image_array, !.use_tflite = use_tflite]
         IN  conc' = SetWorker(w,
                 IF use_tflite /\ tflite_interpreter THEN [me EXCEPT !.pc = "set_tensor"]
                 ELSE IF keras_model THEN [me EXCEPT !.pc = "keras"]
                 ELSE [me EXCEPT !.pc = "done",
                          !.predictions = Raise("RuntimeError", "No model available for prediction")])
    /\ UNCHANGED <<env, mgr, app, io, loop>>

\* predict_keras: keras_model.predict works on the caller's own array
ConcKerasPredict(w) ==
    /\ conc.workers[w].pc = "keras"
    /\ conc' = SetWorker(w, [conc.workers[w] EXCEPT !.pc = "done",
                                !.predictions = Return(conc.workers[w].image_array.probs)])
    /\ UNCHANGED <<env, mgr, app, io, loop>>

\* predict_tflite: interpreter.set_tensor(input index, image_array)
ConcSetTensor(w) ==
    /\ conc.workers[w].pc = "set_tensor"
    /\ conc' = [SetWorker(w, [conc.workers[w] EXCEPT !.pc = "invoke"])
                   EXCEPT !.input = conc.workers[w].image_array]
    /\ UNCHANGED <<env, mgr, app, io, loop>>

\* predict_tflite: interpreter.invoke() evaluates the bound input
ConcInvoke(w) ==
    /\ conc.workers[w].pc = "invoke"
    /\ conc' = [SetWorker(w, [conc.workers[w] EXCEPT !.pc = "get_tensor"])
                   EXCEPT !.output = conc.input.probs]
    /\ UNCHANGED <<env, mgr, app, io, loop>>

\* predict_tflite: interpreter.get_tensor(output index), returned to predict
ConcGetTensor(w) ==
    /\ conc.workers[w].pc = "get_tensor"
    /\ conc' = SetWorker(w, [conc.workers[w] EXCEPT !.pc = "done",
                                !.predictions = Return(conc.output)])
    /\ UNCHANGED <<env, mgr, app, io, loop>>

ConcNext ==
    \E w \in Workers :
        \/ ConcBegin(w)
        \/ ConcKerasPredict(w)
        \/ ConcSetTensor(w)
        \/ ConcInvoke(w)
        \/ ConcGetTensor(w)

SpecConc == ConcInit /\ [][ConcNext]_vars

----------------------------------------------------------------------------
(* Properties of direct calls (SpecUnit)                                   *)

Returned(name) == op = name /\ ret.exc # "pending"

MaxOf(v) == CHOOSE m \in {v[i] : i \in 1..Len(v)} : \A i \in 1..Len(v) : v[i] <= m

IsFailureRecord(e, index) ==
    /\ ~e.success
    /\ e.image_index = index
    /\ e.error # ""

\* C2: predict_batch never raises because of an item: for every item whose
\* predict call raised, a failure record with that item's index and the error
\* text is in the results, the loop goes on, and the call returns the list
\* (also when every item failed).
C2_BatchIsolatesFailures ==
    op = "predict_batch" =>
        /\ loop.exc = "none"
        /\ \A i \in 1..Len(loop.outcomes) :
              ~loop.outcomes[i] =>
                  \E j \in 1..Len(loop.results) : IsFailureRecord(loop.results[j], i - 1)
        /\ Returned("predict_batch") =>
              /\ ret.ok
              /\ Len(loop.outcomes) = Len(args.image_arrays)
              /\ ret.value = loop.results

C2_Witness ==
    /\ Returned("predict_batch")
    /\ ret.ok
    /\ Len(args.image_arrays) >= 2
    /\ keras_model
    /\ \A i \in 1..Len(loop.outcomes) : ~loop.outcomes[i]
    /\ \A j \in 1..Len(ret.value) : ~ret.value[j].success

\* C3: the list predict_batch returns is as long as its input and its i-th
\* entry carries image_index i (0-based), whatever succeeded or failed.
C3_BatchOrderAndLength ==
    (Returned("predict_batch") /\ ret.ok) =>
        /\ Len(ret.value) = Len(args.image_arrays)
        /\ \A i \in 1..Len(ret.value) : ret.value[i].image_index = i - 1

C3_Witness ==
    /\ Returned("predict_batch")
    /\ ret.ok
    /\ Len(ret.value) = 3
    /\ ret.value[1].success /\ ~ret.value[2].success /\ ret.value[3].success
    /\ ret.value[3].image_index = 2

NonIncreasing(ranked) ==
    \A i, j \in 1..Len(ranked) : i < j => ranked[i].confidence >= ranked[j].confidence

\* C4: for a vector of n >= 1 values and k >= 1, rank returns exactly
\* min(k, n) entries in non-increasing order of confidence.
C4_RankCountAndOrder ==
    (Returned("rank") /\ args.top_k >= 1) =>
        /\ ret.ok
        /\ Len(ret.value) = Min(args.top_k, Len(args.predictions))
        /\ NonIncreasing(ret.value)

C4_Witness ==
    /\ Returned("rank")
    /\ args.top_k = 2
    /\ args.predictions = <<30000, 85000, 50000>>
    /\ Len(ret.value) = 2
    /\ ret.value[1].confidence = 85000 /\ ret.value[2].confidence = 50000

\* C5: for a non-empty vector and k >= 1 the first entry of rank has the
\* maximum of the vector as its confidence, and predict's primary_prediction
\* is that entry (its class and its confidence).
C5_PrimaryIsMaximum ==
    /\ (Returned("rank") /\ args.top_k >= 1) =>
          ret.value[1].confidence = MaxOf(args.predictions)
    /\ (Returned("predict") /\ ret.ok /\ args.top_k >= 1) =>
          LET p == ret.value.primary_prediction
              v == args.image_array.probs
          IN  /\ p.confidence = MaxOf(v)
              /\ \E c \in 0..(Len(v) - 1) :
                    v[c + 1] = p.confidence /\ p.disease = get_class_label(c)

C5_Witness ==
    /\ Returned("predict")
    /\ ret.ok
    /\ args.top_k = 2
    /\ args.image_array.probs = <<30000, 85000, 50000>>
    /\ Len(class_labels) = 3
    /\ ret.value.primary_prediction.confidence = 85000
    /\ ret.value.primary_prediction.disease = "Pepper__bell___healthy"

\* C6: rank called with k < 1 fails with an input error and returns no
\* ranked list.
C6_RankRejectsKBelowOne ==
    (Returned("rank") /\ args.top_k < 1) => ~ret.ok

Tier(c) ==
    CASE c < 50000 -> "uncertain"
      [] c >= 50000 /\ c < 70000 -> "mild"
      [] c >= 70000 /\ c < 85000 -> "moderate"
      [] c >= 85000 -> "severe"

\* C7: the severity tier is total over confidences with half-open intervals
\* (< 0.50 uncertain, 0.50 to < 0.70 mild, 0.70 to < 0.85 moderate, >= 0.85
\* severe; 0.49999, 0.5, 0.69999, 0.7, 0.84999, 0.85 fall as the table says),
\* and predict's severity is the tier of its primary confidence.
C7_SeverityTiers ==
    /\ Returned("assess") =>
          /\ ret.ok
          /\ ret.value = Tier(args.confidence)
          /\ args.confidence = 49999 => ret.value = "uncertain"
          /\ args.confidence = 50000 => ret.value = "mild"
          /\ args.confidence = 69999 => ret.value = "mild"
          /\ args.confidence = 70000 => ret.value = "moderate"
          /\ args.confidence = 84999 => ret.value = "moderate"
          /\ args.confidence = 85000 => ret.value = "severe"
    /\ (Returned("predict") /\ ret.ok) =>
          ret.value.primary_prediction.severity
              = Tier(ret.value.primary_prediction.confidence)

C7_Witness ==
    /\ Returned("predict")
    /\ ret.ok
    /\ args.image_array.probs = <<50000, 30000>>
    /\ ret.value.primary_prediction.confidence = 50000
    /\ ret.value.primary_prediction.severity = "mild"

\* C8: predict fails with a model-unavailable error whenever the requested
\* variant is not loaded: use_tflite without an interpreter fails, and a
\* primary request without a Keras model fails, whatever else is loaded.
C8_RequestedVariantMustBeLoaded ==
    (/\ Returned("predict")
     /\ args.top_k >= 1 /\ args.raises = "none"
     /\ \/ args.use_tflite /\ ~tflite_interpreter
        \/ ~args.use_tflite /\ ~keras_model)
    => (~ret.ok /\ ret.exc = "RuntimeError")

\* C22: batch mode runs the single-item pipeline with k = 1: every
\* successful entry of a predict_batch result has a primary prediction and
\* an empty alternative_predictions list, whatever the number of classes.
C22_BatchEntriesHaveNoAlternatives ==
    (Returned("predict_batch") /\ ret.ok) =>
        \A i \in 1..Len(ret.value) :
            ret.value[i].success =>
                /\ "primary_prediction" \in DOMAIN ret.value[i]
                /\ ret.value[i].primary_prediction.confidence =
                      MaxOf(args.image_arrays[i].probs)
                /\ ret.value[i].alternative_predictions = <<>>

C22_Witness ==
    /\ Returned("predict_batch")
    /\ ret.ok
    /\ \E i \in 1..Len(ret.value) :
          /\ Len(args.image_arrays[i].probs) >= 2
          /\ ret.value[i].success
          /\ ret.value[i].alternative_predictions = <<>>

\* C23: in a result of predict with k >= 1 on a vector of n classes,
\* alternative_predictions is the ranked list without its first entry: it
\* has min(k, n) - 1 entries in non-increasing confidence order, none above
\* the primary confidence and none with the primary prediction's class.
C23_AlternativesExcludePrimary ==
    (Returned("predict") /\ ret.ok /\ args.top_k >= 1) =>
        LET alternatives == ret.value.alternative_predictions
            primary == ret.value.primary_prediction
            n == Len(args.image_array.probs)
        IN  /\ Len(alternatives) = Min(args.top_k, n) - 1
            /\ NonIncreasing(alternatives)
            /\ \A i \in 1..Len(alternatives) :
                  /\ alternatives[i].confidence <= primary.confidence
                  /\ alternatives[i].class # primary.disease
                  /\ get_class_label(alternatives[i].class_index) # primary.disease
                  /\ alternatives[i].confidence =
                        args.image_array.probs[alternatives[i].class_index + 1]
            /\ \A i, j \in 1..Len(alternatives) :
                  i # j => alternatives[i].class_index # alternatives[j].class_index

C23_Witness ==
    /\ Returned("predict")
    /\ ret.ok
    /\ args.top_k = 2
    /\ Len(args.image_array.probs) = 3
    /\ Len(ret.value.alternative_predictions) = 1
    /\ ret.value.alternative_predictions[1].confidence = ret.value.primary_prediction.confidence

----------------------------------------------------------------------------
(* Properties of the application (Spec)                                    *)

BatchAccepted ==
    /\ Returned("route_batch")
    /\ validate_batch_request(args, MAX_BATCH_SIZE) = "valid"
    /\ \E i \in 1..Len(args.images) : args.images[i].kind = "valid"

\* C1: through the batch endpoint every input image, including one that fails
\* in preprocessing, yields exactly one result entry tagged with its position
\* in the request: [valid, corrupt, valid] gives three entries, 0 and 2
\* diagnoses or failures of their own, 1 a failure record with index 1.
C1_BatchEndpointKeepsPositions ==
    BatchAccepted =>
        /\ ret.value.status = 200
        /\ Len(ret.value.body.results) = Len(args.images)
        /\ \A i \in 1..Len(args.images) :
              /\ ret.value.body.results[i].image_index = i - 1
              /\ args.images[i].kind = "corrupt" => ~ret.value.body.results[i].success

ManagerBuilt ==
    \/ pc \in {"manager_built", "serving"}
    \/ pc = "failed" /\ labels_file.state = "ok"

\* C9: is_ready() is true exactly when at least one of the two variants
\* loaded and the label table is non-empty: false when both variants failed
\* to load, false with an empty label table even if a variant loaded.
C9_ReadinessRule ==
    ManagerBuilt =>
        /\ is_ready <=> ((keras_file = "ok" \/ tflite_file = "ok") /\ labels_file.content # <<>>)
        /\ (keras_file # "ok" /\ tflite_file # "ok") => ~is_ready
        /\ labels_file.content = <<>> => ~is_ready

C9_Witness ==
    /\ ManagerBuilt
    /\ keras_file = "ok" /\ keras_model
    /\ tflite_file = "corrupt"
    /\ class_labels = <<>>
    /\ ~is_ready

\* C10: start-up fails fast: create_app raises and registers no route
\* whenever the manager is not ready after loading, so a prediction request
\* is only ever handled while is_ready() holds.
C10_StartupFailsFast ==
    /\ routes_registered => is_ready
    /\ pc = "serving" => is_ready
    /\ op \in {"route_predict", "route_batch"} => (routes_registered /\ is_ready)
    /\ pc = "failed" => (~routes_registered /\ ~ret.ok /\ ret.exc # "pending")
    /\ (pc \in {"serving", "failed"} /\ ~is_ready) => pc = "failed"

C10_Witness ==
    /\ pc = "failed"
    /\ tflite_interpreter
    /\ labels_file.state = "ok" /\ class_labels = <<>>
    /\ ret.exc = "RuntimeError"
    /\ ~routes_registered

\* the placeholder of an index outside the label table
Placeholder(index) ==
    IF index >= 0 THEN "unknown_class_" \o ToString(index)
    ELSE "unknown_class_-" \o ToString(0 - index)

ModelAvailable == keras_model \/ (args.use_tflite /\ tflite_interpreter)

\* C18: get_class_label is total: an index in 0..len(labels)-1 gives the
\* label at that index and every other index, negative or too large, gives
\* the placeholder "unknown_class_<index>"; a probability vector wider than
\* the label table therefore does not abort rank or predict, the classes
\* without a label are reported under their placeholder.
C18_ClassLabelTotal ==
    /\ Returned("get_class_label") =>
          /\ ret.ok
          /\ (0 <= args.index /\ args.index < Len(class_labels)) =>
                ret.value = class_labels[args.index + 1]
          /\ (args.index < 0 \/ args.index >= Len(class_labels)) =>
                ret.value = Placeholder(args.index)
    /\ (Returned("rank") /\ args.top_k >= 1) =>
          /\ ret.ok
          /\ \A i \in 1..Len(ret.value) :
                ret.value[i].class_index >= Len(class_labels) =>
                    ret.value[i].class = Placeholder(ret.value[i].class_index)
    /\ (Returned("predict") /\ args.top_k >= 1 /\ args.raises = "none" /\ ModelAvailable
          /\ Len(args.image_array.probs) > Len(class_labels)) => ret.ok

C18_Witness ==
    /\ Returned("rank")
    /\ Len(args.predictions) > Len(class_labels)
    /\ Len(class_labels) > 0
    /\ args.top_k >= 1
    /\ ret.value[1].class = Placeholder(Len(class_labels))

\* C24: the single-item pipeline does not swallow errors: when no model is
\* available, when model evaluation raises or when the ranked list cannot
\* be used, predict raises that error to its caller and returns no result;
\* a result is only returned, with success = TRUE, when nothing failed.
C24_PredictPropagatesErrors ==
    Returned("predict") =>
        /\ ~ModelAvailable =>
              (~ret.ok /\ ret.exc = "RuntimeError" /\ ret.value = NoValue)
        /\ (ModelAvailable /\ args.raises # "none") =>
              (~ret.ok /\ ret.exc = args.raises /\ ret.value = NoValue)
        /\ ret.ok =>
              (ModelAvailable /\ args.raises = "none" /\ ret.value.success = TRUE)
        /\ ~ret.ok => ret.value = NoValue

C24_Witness ==
    /\ Returned("predict")
    /\ ModelAvailable
    /\ args.raises = "InternalError"
    /\ args.top_k >= 1
    /\ ~ret.ok
    /\ ret.exc = "InternalError"
    /\ ret.value = NoValue

\* C25: rank breaks ties by ascending class index: among returned entries
\* of equal confidence the lower class index comes first, and a class left
\* out at the cut-off with the confidence of the last returned entry has a
\* higher index than every returned class of that confidence.
C25_TieBreakLowerIndexFirst ==
    (Returned("rank") /\ args.top_k >= 1) =>
        /\ \A i, j \in 1..Len(ret.value) :
              (i < j /\ ret.value[i].confidence = ret.value[j].confidence) =>
                  ret.value[i].class_index < ret.value[j].class_index
        /\ \A c \in 0..(Len(args.predictions) - 1) :
              \A i \in 1..Len(ret.value) :
                  (/\ \A j \in 1..Len(ret.value) : ret.value[j].class_index # c
                   /\ args.predictions[c + 1] = ret.value[i].confidence) =>
                      ret.value[i].class_index < c

\* C26: model_used of a successful predict result names the backend that
\* produced the probability vector: "tflite" only if predict_tflite ran and
\* "keras" only if predict_keras ran, whatever use_tflite is and whichever
\* variants are loaded.
C26_ModelUsedIsTheBackendThatRan ==
    (Returned("predict") /\ ret.ok) =>
        /\ ret.value.model_used = "tflite" => ret.value.backend = "tflite"
        /\ ret.value.model_used = "keras" => ret.value.backend = "keras"

\* the request passes validate_prediction_request, validate_image and
\* preprocess_image
PredictAccepted(data) ==
    /\ data.body = "ok"
    /\ validate_prediction_request(data) = "valid"
    /\ validate_image(data.image)
    /\ preprocess_image(data.image).ok

\* C27: a single-image request accepted by validate_prediction_request
\* reaches predict with top_k an integer in 1..10, the value the validator
\* checked; no accepted request (top_k a numeric string, a non-integral
\* number or a boolean) fails inside ranking with a server error.
C27_AcceptedTopKNeverFailsRanking ==
    (Returned("route_predict") /\ PredictAccepted(args) /\ args.raises = "none"
        /\ ModelAvailable) => ret.value.status = 200

\* C28: once the application has started (is_ready() holds), a request
\* with default options (no use_tflite, no top_k) on a valid image does not
\* fail for lack of a model: it is answered with a diagnosis also when
\* only the TFLite variant is loaded.
C28_DefaultRequestServedWhenReady ==
    (Returned("route_predict") /\ is_ready /\ PredictAccepted(args)
        /\ ~args.use_tflite /\ ~args.has_top_k /\ args.raises = "none") =>
            (ret.value.status = 200 /\ ret.value.body.success)

\* C29: for a vector of n values and k >= 1 the entries of rank have
\* pairwise distinct class_index values in 0..n-1, each with the vector's
\* value at its index as confidence and get_class_label of its index as
\* class, and no class left out has more than the smallest returned
\* confidence.
C29_RankEntriesAreTheTopClasses ==
    (Returned("rank") /\ args.top_k >= 1) =>
        LET n == Len(args.predictions)
            returned == {ret.value[i].class_index : i \in 1..Len(ret.value)}
        IN  /\ \A i \in 1..Len(ret.value) :
                  /\ ret.value[i].class_index \in 0..(n - 1)
                  /\ ret.value[i].confidence = args.predictions[ret.value[i].class_index + 1]
                  /\ ret.value[i].class =
                        IF ret.value[i].class_index < Len(class_labels)
                        THEN class_labels[ret.value[i].class_index + 1]
                        ELSE Placeholder(ret.value[i].class_index)
            /\ Cardinality(returned) = Len(ret.value)
            /\ \A c \in (0..(n - 1)) \ returned :
                  \A i \in 1..Len(ret.value) :
                      args.predictions[c + 1] <= ret.value[i].confidence

C29_Witness ==
    /\ Returned("rank")
    /\ Len(args.predictions) = 3
    /\ args.top_k = 2
    /\ Len(ret.value) = 2
    /\ ret.value[1].class_index = 2
    /\ ret.value[2].class_index = 0
    /\ args.predictions[2] < ret.value[2].confidence

\* C30: after start-up no predict or predict_batch call, successful or
\* failing, changes the class label table, num_classes or the set of loaded
\* variants, so is_ready() and get_model_info() stay as they are; the
\* knowledge base (diseases) is a constant of the model, nothing writes it.
C30_RequestsLeaveManagerUnchanged ==
    [][pc = "serving" =>
          /\ UNCHANGED <<class_labels, num_classes, keras_model, tflite_interpreter>>
          /\ is_ready' = is_ready
          /\ is_ready
          /\ get_model_info' = get_model_info]_vars

C30_Witness ==
    /\ pc = "serving"
    /\ Returned("route_batch")
    /\ ret.value.status = 200
    /\ \E i, j \in 1..Len(loop.outcomes) : loop.outcomes[i] /\ ~loop.outcomes[j]
    /\ is_ready
    /\ class_labels = labels_file.content
    /\ num_classes = Len(class_labels)

----------------------------------------------------------------------------
(* Properties of concurrent calls (SpecConc)                               *)

\* C11: request handling never changes the shared model artifacts, so for
\* any interleaving of concurrent predict calls on one ModelManager (either
\* variant, the interpreter's set_tensor / invoke / get_tensor steps
\* included) each call returns the vector computed from its own tensor.
C11_EachCallGetsItsOwnVector ==
    \A w \in Workers :
        (conc.workers[w].pc = "done" /\ conc.workers[w].predictions.ok) =>
            conc.workers[w].predictions.value = conc.workers[w].image_array.probs

\* the request itself is at fault: body, image validation or preprocessing
InputError(data) ==
    \/ data.body = "malformed"
    \/ validate_prediction_request(data) # "valid"
    \/ ~validate_image(data.image)
    \/ ~preprocess_image(data.image).ok

\* C20: on /predict every input error (invalid body, image rejected by
\* validate_image, preprocessing failure) is answered with 400 and every
\* backend failure (no model for the request, a shape mismatch raised by
\* the model, any other error in predict) with 500; no backend failure is
\* answered with 400 and no input error with 500.
C20_StatusSeparatesInputFromBackend ==
    Returned("route_predict") =>
        /\ InputError(args) => ret.value.status = 400
        /\ ~InputError(args) => ret.value.status \in {200, 500}

\* a batch body the transport layer has to turn down
BatchMustBeRejected(data) ==
    \/ data.body \in {"none", "no_images", "not_list"}
    \/ /\ data.body = "ok"
       /\ \/ Len(data.images) = 0
          \/ Len(data.images) > MAX_BATCH_SIZE
          \/ \E i \in 1..Len(data.images) : data.images[i].kind = "empty"

\* C21: a batch whose images list has more than max_batch_size entries, or
\* is missing, not a list, empty or holds an empty element, is rejected
\* with 400 before anything is preprocessed or handed to predict_batch;
\* predict_batch is only ever called with 1..max_batch_size items.
C21_BatchRejectedBeforePredictBatch ==
    /\ loop.caller = "route" =>
          (1 <= Len(loop.arrays) /\ Len(loop.arrays) <= MAX_BATCH_SIZE)
    /\ (op = "route_batch" /\ BatchMustBeRejected(args)) =>
          /\ Returned("route_batch")
          /\ ret.value.status = 400
          /\ loop = Idle

C21_Witness ==
    /\ Returned("route_batch")
    /\ args.body = "ok"
    /\ Len(args.images) = MAX_BATCH_SIZE + 1
    /\ \A i \in 1..Len(args.images) : args.images[i].kind = "valid"
    /\ ret.value.status = 400
    /\ loop = Idle

----------------------------------------------------------------------------
(* Properties of the pure helpers (SpecPure)                               *)

Tomato_Early_blight == <<"T", "o", "m", "a", "t", "o", "_", "E", "a", "r", "l", "y", "_", "b", "l", "i", "g", "h", "t">>
Pepper__bell___healthy == <<"P", "e", "p", "p", "e", "r", "_", "_", "b", "e", "l", "l", "_", "_", "_", "h", "e", "a", "l", "t", "h", "y">>
pepper_bell_healthy == <<"p", "e", "p", "p", "e", "r", "_", "b", "e", "l", "l", "_", "h", "e", "a", "l", "t", "h", "y">>
HEALTHY_leaf == <<"H", "E", "A", "L", "T", "H", "Y", "_", "l", "e", "a", "f">>
Grape == <<"G", "r", "a", "p", "e">>

\* the positions of a lowercased label that survive normalization: every
\* character but "_", and the last "_" of a run that has a character other
\* than "_" on both sides
KeptPositions(l) ==
    {i \in 1..Len(l) :
        \/ l[i] # "_"
        \/ /\ i < Len(l)
           /\ l[i + 1] # "_"
           /\ \E j \in 1..(i - 1) : l[j] # "_"}

IsUpper(c) == \E i \in 1..26 : ascii_uppercase[i] = c

\* the characters before the first "_" of s, all of s when it has none
FirstSegment(s) ==
    SubSeq(s, 1, Cardinality({i \in 1..Len(s) : \A j \in 1..i : s[j] # "_"}))

InKnowledgeBase(class_name) == _normalize_disease_key(class_name) \in DOMAIN diseases

\* C12: key normalization is idempotent: normalizing the key of any class
\* label gives that key again ("Pepper__bell___healthy" gives
\* "pepper_bell_healthy", which normalizes to itself).
C12_NormalizeIdempotent ==
    op = "_normalize_disease_key_again" => ret.value = args.class_name

C12_Witness ==
    /\ op = "_normalize_disease_key_again"
    /\ args.first = Pepper__bell___healthy
    /\ args.class_name = pepper_bell_healthy
    /\ ret.value = pepper_bell_healthy

\* C13: the key of a class label is the lowercased label with every run of
\* underscores collapsed to one underscore and the leading and trailing
\* underscores removed; it holds no "__", does not begin or end with "_"
\* and has no upper-case letter.
C13_NormalizedKeyShape ==
    op = "_normalize_disease_key" =>
        LET key == ret.value
            l == lower(args.class_name)
            kept == KeptPositions(l)
        IN  /\ Len(key) = Cardinality(kept)
            /\ \A i \in kept : key[Cardinality({j \in kept : j <= i})] = l[i]
            /\ ~Contains(key, <<"_", "_">>)
            /\ key # <<>> => (key[1] # "_" /\ key[Len(key)] # "_")
            /\ \A i \in 1..Len(key) : ~IsUpper(key[i])

C13_Witness ==
    /\ op = "_normalize_disease_key"
    /\ args.class_name = <<"_", "B", "_", "_", "a">>
    /\ ret.value = <<"b", "_", "a">>

\* C14: enrichment never fails and returns a record for every class label:
\* the knowledge-base record when the normalized key is in the knowledge
\* base, and otherwise the fallback record with name, crop, type, message
\* and recommendation, whose name is the raw label.
C14_EnrichAlwaysReturnsRecord ==
    op = "_get_disease_information" =>
        /\ ret.ok
        /\ InKnowledgeBase(args.class_name) =>
              ret.value = diseases[_normalize_disease_key(args.class_name)]
        /\ ~InKnowledgeBase(args.class_name) =>
              /\ DOMAIN ret.value = {"name", "crop", "type", "message", "recommendation"}
              /\ ret.value.name = args.class_name

C14_Witness ==
    /\ op = "_get_disease_information"
    /\ args.class_name = Grape
    /\ ~InKnowledgeBase(args.class_name)
    /\ ret.ok
    /\ ret.value.name = Grape

\* C15: the crop name is the first underscore-separated segment of the raw
\* label, capitalized: "Tomato_Early_blight" gives "Tomato", and a label
\* with no underscore gives the whole label capitalized.
C15_CropIsFirstSegmentCapitalized ==
    op = "_extract_crop_name" =>
        /\ ret.value = capitalize(FirstSegment(args.class_name))
        /\ ~Contains(args.class_name, <<"_">>) => ret.value = capitalize(args.class_name)
        /\ args.class_name = Tomato_Early_blight => ret.value = <<"T", "o", "m", "a", "t", "o">>

C15_Witness ==
    /\ op = "_extract_crop_name"
    /\ args.class_name = Tomato_Early_blight
    /\ ret.value = <<"T", "o", "m", "a", "t", "o">>

\* C16: for the empty raw label, which has no segments, the crop name of
\* the fallback record is "Unknown".
C16_EmptyLabelCropIsUnknown ==
    (op = "_get_disease_information" /\ args.class_name = <<>>) =>
        ret.value.crop = Unknown

\* C17: in the fallback record the type is "healthy" exactly when the
\* lowercased raw label contains "healthy", and "disease" otherwise.
C17_FallbackType ==
    (op = "_get_disease_information" /\ ~InKnowledgeBase(args.class_name)) =>
        /\ ret.value.type \in {"healthy", "disease"}
        /\ ret.value.type = "healthy" <=> Contains(lower(args.class_name), healthy)

C17_Witness ==
    /\ op = "_get_disease_information"
    /\ args.class_name = HEALTHY_leaf
    /\ ~InKnowledgeBase(args.class_name)
    /\ ret.value.type = "healthy"

Rejected ==
    \/ op = "validate_image" /\ ret.value = FALSE
    \/ op = "preprocess_image" /\ ~ret.ok /\ ret.exc = "ValueError"

Accepted ==
    \/ op = "validate_image" /\ ret.value = TRUE
    \/ op = "preprocess_image" /\ ret.ok

\* C19: a payload larger than max_size_bytes is rejected by validate_image
\* (False) and by preprocess_image (ValueError, no tensor), and a payload of
\* exactly max_size_bytes is not rejected for its size; here the payload is
\* the data handed to the operation, base64 text included.
C19_OversizedPayloadRejected ==
    op \in {"validate_image", "preprocess_image"} =>
        /\ args.image_data.length > max_size_bytes => Rejected
        /\ (args.image_data.length = max_size_bytes /\ args.image_data.kind = "valid") => Accepted

\* C19, amended: the size limit applies to the decoded bytes of the image.
\* An image whose decoded bytes are more than max_size_bytes is rejected by
\* both operations, and one of exactly max_size_bytes decoded bytes is
\* not rejected for its size.
C19_OversizedDecodedBytesRejected ==
    op \in {"validate_image", "preprocess_image"} =>
        /\ b64decode_len(args.image_data) > max_size_bytes => Rejected
        /\ (b64decode_len(args.image_data) = max_size_bytes /\ args.image_data.kind = "valid")
              => Accepted

C19_Witness ==
    /\ op = "preprocess_image"
    /\ args.image_data.kind = "valid"
    /\ b64decode_len(args.image_data) = max_size_bytes + 1
    /\ ret.exc = "ValueError"

====
